---- MODULE Spec2Model ----
(***************************************************************************)
(* A model of super_process.py: the SuperProcess supervisor (execute with  *)
(* retries, the optimization hook, continuous mode with pause / resume /   *)
(* stop) and its ProcessMetrics.                                           *)
(*                                                                         *)
(* Threads are the callers of the public methods (Controllers) and the     *)
(* threads start_continuous creates (Workers).  Every thread has a program *)
(* counter pc[t] and a frame of locals loc[t].  One action is one atomic   *)
(* step of the Python code: an access to a shared attribute, an Event      *)
(* operation, a lock acquisition, or a critical section's assignment       *)
(* together with the release that ends it.  Reads of locals and of the     *)
(* immutable configuration are folded into the neighbouring step.          *)
(*                                                                         *)
(* Time is counted in ticks; a float that is a quotient is kept as the     *)
(* pair <<numerator, denominator>>; optimization_level is kept in tenths.  *)
(***************************************************************************)
EXTENDS Integers, FiniteSets, Sequences, TLC

\* ------------------------------------------------------------ bounds
\* Calls one caller makes in the sequential specification.
MaxSeqCalls == 11
\* Calls one caller makes in the specification of continuous mode.
MaxCalls == 3
\* Calls the caller makes in the specification of direct calls.
MaxDirectCalls == 2
\* Calls each of the two callers makes in the specification of racing callers.
MaxRaceCalls == 1
\* Calls the caller makes in the specification of get_metrics.
MaxSnapCalls == 3
\* Calls each caller makes in the specification of the manager, a call the
\* manager makes on Main counted as one.
MaxManagerCalls == 2
\* Calls the second caller makes beside the caller of the manager.
MaxOtherCalls == 1
\* Calls each of the two callers makes in the specification of the registry.
MaxRegistryCalls == 2
\* Cycles the continuous workers begin, all workers together.
MaxCycles == 2
\* The largest max_retries a supervisor is configured with.
MaxRetries == 2
\* reset_metrics calls, all callers together (one metrics object each).
MaxResets == 1

\* ------------------------------------------------- program constants
\* _should_optimize: no optimization below this many executions.
MinExecutions == 10
\* optimization_threshold's default 0.8 = ThresholdNum / ThresholdDen.
ThresholdNum == 4
ThresholdDen == 5
\* ProcessMetrics.optimization_level starts at 1.0, in tenths.
InitialLevel == 10
\* _optimize adds 0.1, in tenths.
LevelStep == 1

Controllers == {"c1", "c2"}
Workers == {"w1", "w2"}
Threads == Controllers \cup Workers
NoThread == "none"

\* Wall-clock durations a successful task call can take, in ticks: those the
\* sequential specification draws from, and the one duration of the others.
Runtimes == {1, 2}
OneRuntime == {1}

ProcessState == {"IDLE", "RUNNING", "PAUSED", "STOPPED", "OPTIMIZING", "ERROR"}

\* The SuperProcess objects.  Main is the supervisor of the variables state,
\* metrics, lock, ...: the one whose methods the callers call and that runs
\* continuous mode.  The others are reached through the manager only: no
\* thread was started on them (their _thread is None) and every access to
\* them is made by the holder of the manager's lock.
Main == "s1"
Passive == {"s2", "s3"}
Supervisors == {Main} \cup Passive
\* process.name: s2 has the name of Main.
Names == {"a", "b"}
NameOf == [p \in Supervisors |-> IF p = "s3" THEN "b" ELSE "a"]
NoProcess == "none"
\* No metrics object: what a caller holds before it has read self.metrics.
NoObject == -1

VARIABLES
    max_retries,    \* self.max_retries
    auto_optimize,  \* self.auto_optimize
    state,          \* self.state
    heap,           \* the ProcessMetrics objects created so far, by identity
    metrics,        \* self.metrics: the identity of the current object
    lock,           \* self._lock: the thread holding it, or NoThread
    stop_flag,      \* self._stop_flag
    pause_flag,     \* self._pause_flag
    thread,         \* self._thread: a worker, or NoThread
    wstatus,        \* each Thread object: unborn, created, alive, dead
    pc,             \* each thread's position
    loc,            \* each thread's locals
    ncalls,         \* calls each caller has begun
    cycles,         \* execute cycles the workers have begun
    finished,       \* execute calls ended: by result, by error, by falling through
    pauseActive,    \* pause() has returned and resume() was not called since
    pauseMark,      \* cycles when that pause() returned
    stopRet,        \* workers alive at the call of a stop() that has returned
    stopWritten,    \* threads in an execute that a stop() call found in flight
                    \* and whose STOPPED has been written
    obtained,       \* what the last get_metrics() returned: the object, and
                    \* the value it had then
    processes,      \* SuperProcessManager.processes: the dict, in insertion order
    rlock,          \* SuperProcessManager._lock: the thread holding it, or NoThread
    passive,        \* the state and stop flag of the other supervisors
    rpc,            \* each caller's position in a method of the manager
    rloc            \* each caller's locals in that method

vars == <<max_retries, auto_optimize, state, heap, metrics, lock, stop_flag,
          pause_flag, thread, wstatus, pc, loc, ncalls, cycles, finished,
          pauseActive, pauseMark, stopRet, stopWritten, obtained, processes,
          rlock, passive, rpc, rloc>>

config == <<max_retries, auto_optimize>>
flags == <<stop_flag, pause_flag>>
threadsv == <<thread, wstatus>>
ghosts == <<pauseActive, pauseMark, stopRet, stopWritten>>
manager == <<processes, rlock, passive, rpc, rloc>>

\* ----------------------------------------------------------- metrics
\* ProcessMetrics(): the dataclass defaults.
ProcessMetrics ==
    [execution_count |-> 0, total_runtime |-> 0, average_runtime |-> <<0, 1>>,
     success_count |-> 0, error_count |-> 0, optimization_level |-> InitialLevel,
     last_execution_time |-> 0]

\* The metrics after ten executions that all exhausted their retries: what a
\* supervisor holds when its task has failed ten times in a row.
AgedMetrics ==
    [execution_count |-> MinExecutions, total_runtime |-> 0,
     average_runtime |-> <<0, MinExecutions>>,
     success_count |-> 0, error_count |-> MinExecutions,
     optimization_level |-> InitialLevel, last_execution_time |-> 0]

\* Equality of two quotients kept as pairs.
SameQuotient(p, q) == p[1] * q[2] = q[1] * p[2]

\* self.metrics, dereferenced.
Cur == heap[metrics]

\* The metrics of a supervisor that was run twice, a failure and then a
\* success of one tick: what s3 holds.
UsedMetrics ==
    [execution_count |-> 2, total_runtime |-> 1, average_runtime |-> <<1, 2>>,
     success_count |-> 1, error_count |-> 1, optimization_level |-> InitialLevel,
     last_execution_time |-> 1]
PassiveMetrics == [p \in Passive |-> IF p = "s3" THEN UsedMetrics ELSE ProcessMetrics]

\* ------------------------------------------------------------ locals
\* The locals of a method of the manager: the method and its argument, the
\* entries still to visit, the supervisor at hand, where to go on after its
\* stop(), the entry and the dict under construction, the result.
NoEntry == [name |-> "", state |-> "", executions |-> 0, rate |-> <<0, 1>>]
ManagerFrame ==
    [op |-> "", arg |-> "", todo |-> <<>>, cur |-> NoProcess, then |-> "",
     ref |-> NoObject, entry |-> NoEntry, total |-> 0, out |-> <<>>,
     result |-> ""]

Frame ==
    [retries |-> 0, last_error |-> FALSE, tmp |-> 0, runtime |-> 0,
     success |-> FALSE, mref |-> 0, prev |-> "IDLE", result |-> "",
     calls |-> 0, base |-> <<0, 0, 0, 0>>, target |-> NoThread, inflight |-> {},
     active |-> {}, before |-> ""]

\* The frame of a call of execute; base remembers the counters and the
\* total_runtime the call found.
ExecuteFrame ==
    [Frame EXCEPT !.base = <<Cur.execution_count, Cur.success_count,
                             Cur.error_count, Cur.total_runtime>>]

\* The positions of a thread inside execute, _should_optimize, _optimize and
\* update_execution.
ExecutePcs ==
    {"E_enter", "E_run", "E_loop", "E_rate", "O_lock", "O_set", "O_rd", "O_wr",
     "O_lock2", "O_restore", "E_call", "E_task", "E_backoff", "U_rd_exec", "U_wr_exec",
     "U_rd_total", "U_wr_total", "U_avg", "U_rd_cnt", "U_wr_cnt",
     "E_lock_end", "E_end", "E_done"}
UpdatePcs ==
    {"U_wr_exec", "U_rd_total", "U_wr_total", "U_avg", "U_rd_cnt", "U_wr_cnt"}

InExecute(t) == pc[t] \in ExecutePcs
InUpdate(t) == pc[t] \in UpdatePcs

\* ------------------------------------------------------ the lock
\* with self._lock: entering.
Acquire(t) == lock = NoThread /\ lock' = t
\* with self._lock: leaving.
Release(t) == lock = t /\ lock' = NoThread

Goto(t, p) == pc' = [pc EXCEPT ![t] = p]
\* ------------------------------------------------------------ execute
\* Lines 110-114: the lock is taken ...
execute_enter(t) ==
    /\ pc[t] = "E_enter"
    /\ Acquire(t)
    /\ Goto(t, "E_run")
    /\ UNCHANGED <<manager, obtained, config, state, heap, metrics, flags, threadsv, loc, ncalls,
                   cycles, finished, ghosts>>

\* execute_running with the loop inside the with block of line 110: the lock
\* is kept.
execute_running_locked(t) ==
    /\ pc[t] = "E_run"
    /\ state' = "RUNNING"
    /\ lock' = lock
    /\ loc' = [loc EXCEPT ![t].retries = 0, ![t].last_error = FALSE]
    /\ Goto(t, "E_loop")
    /\ UNCHANGED <<manager, obtained, config, heap, metrics, flags, threadsv,
                   ncalls, cycles, finished, ghosts>>

\* ... and state becomes RUNNING; retries = 0, last_error = None.
execute_running(t) ==
    /\ pc[t] = "E_run"
    /\ state' = "RUNNING"
    /\ Release(t)
    /\ loc' = [loc EXCEPT ![t].retries = 0, ![t].last_error = FALSE]
    /\ Goto(t, "E_loop")
    /\ UNCHANGED <<manager, obtained, config, heap, metrics, flags, threadsv, ncalls, cycles,
                   finished, ghosts>>

\* execute_loop with the loop test off by one: retries <= max_retries.
execute_loop_off_by_one(t) ==
    /\ pc[t] = "E_loop"
    /\ IF loc[t].retries <= max_retries
       THEN /\ IF auto_optimize /\ ~(Cur.execution_count < MinExecutions)
               THEN Goto(t, "E_rate")
               ELSE Goto(t, "E_call")
            /\ loc' = loc
       ELSE IF loc[t].last_error
       THEN /\ loc' = [loc EXCEPT ![t].runtime = 0, ![t].success = FALSE]
            /\ Goto(t, "U_rd_exec")
       ELSE /\ loc' = [loc EXCEPT ![t].result = "None"]
            /\ Goto(t, "E_done")
    /\ UNCHANGED <<manager, obtained, config, state, heap, metrics, lock, flags, threadsv, ncalls,
                   cycles, finished, ghosts>>

\* execute_loop with line 144 recording a tick of elapsed time for the
\* failed execution in place of 0.0.
execute_loop_timed(t) ==
    /\ pc[t] = "E_loop"
    /\ IF loc[t].retries < max_retries
       THEN /\ IF auto_optimize /\ ~(Cur.execution_count < MinExecutions)
               THEN Goto(t, "E_rate")
               ELSE Goto(t, "E_call")
            /\ loc' = loc
       ELSE IF loc[t].last_error
       THEN /\ loc' = [loc EXCEPT ![t].runtime = 1, ![t].success = FALSE]
            /\ Goto(t, "U_rd_exec")
       ELSE /\ loc' = [loc EXCEPT ![t].result = "None"]
            /\ Goto(t, "E_done")
    /\ UNCHANGED <<manager, obtained, config, state, heap, metrics, lock, flags, threadsv, ncalls,
                   cycles, finished, ghosts>>

\* Line 116, the loop test; inside the loop lines 119 and 212, the first test
\* of _should_optimize; after the loop line 142.
execute_loop(t) ==
    /\ pc[t] = "E_loop"
    /\ IF loc[t].retries < max_retries
       THEN /\ IF auto_optimize /\ ~(Cur.execution_count < MinExecutions)
               THEN Goto(t, "E_rate")
               ELSE Goto(t, "E_call")
            /\ loc' = loc
       ELSE IF loc[t].last_error
       THEN /\ loc' = [loc EXCEPT ![t].runtime = 0, ![t].success = FALSE]
            /\ Goto(t, "U_rd_exec")
       ELSE /\ loc' = [loc EXCEPT ![t].result = "None"]
            /\ Goto(t, "E_done")
    /\ UNCHANGED <<manager, obtained, config, state, heap, metrics, lock, flags, threadsv, ncalls,
                   cycles, finished, ghosts>>

\* Lines 135-139: the handler of an exception raised inside the try block.
Handled(t, l) ==
    [l EXCEPT ![t].last_error = TRUE, ![t].retries = l[t].retries + 1]
AfterHandler(t) ==
    IF loc[t].retries + 1 < max_retries THEN "E_backoff" ELSE "E_loop"

\* should_optimize with the comparison of line 216 as <=: a success rate
\* equal to the threshold triggers the hook.
should_optimize_at_threshold(t) ==
    /\ pc[t] = "E_rate"
    /\ IF Cur.execution_count = 0
       THEN /\ loc' = Handled(t, loc)
            /\ Goto(t, AfterHandler(t))
       ELSE /\ loc' = loc
            /\ IF Cur.success_count * ThresholdDen
                    <= ThresholdNum * Cur.execution_count
               THEN Goto(t, "O_lock")
               ELSE Goto(t, "E_call")
    /\ UNCHANGED <<manager, obtained, config, state, heap, metrics, lock, flags, threadsv, ncalls,
                   cycles, finished, ghosts>>

\* Lines 215-216: success_rate, a ZeroDivisionError when reset_metrics has
\* replaced the metrics since line 212; the comparison with the threshold.
should_optimize(t) ==
    /\ pc[t] = "E_rate"
    /\ IF Cur.execution_count = 0
       THEN /\ loc' = Handled(t, loc)
            /\ Goto(t, AfterHandler(t))
       ELSE /\ loc' = loc
            /\ IF Cur.success_count * ThresholdDen
                    < ThresholdNum * Cur.execution_count
               THEN Goto(t, "O_lock")
               ELSE Goto(t, "E_call")
    /\ UNCHANGED <<manager, obtained, config, state, heap, metrics, lock, flags, threadsv, ncalls,
                   cycles, finished, ghosts>>

\* Lines 220-222.
optimize_enter(t) ==
    /\ pc[t] = "O_lock"
    /\ Acquire(t)
    /\ Goto(t, "O_set")
    /\ UNCHANGED <<manager, obtained, config, state, heap, metrics, flags, threadsv, loc, ncalls,
                   cycles, finished, ghosts>>

optimize_set(t) ==
    /\ pc[t] = "O_set"
    /\ loc' = [loc EXCEPT ![t].prev = state]
    /\ state' = "OPTIMIZING"
    /\ Release(t)
    /\ Goto(t, "O_rd")
    /\ UNCHANGED <<manager, obtained, config, heap, metrics, flags, threadsv, ncalls, cycles,
                   finished, ghosts>>

\* Line 227, self.metrics.optimization_level += 0.1: the read ...
optimize_read(t) ==
    /\ pc[t] = "O_rd"
    /\ loc' = [loc EXCEPT ![t].mref = metrics,
                          ![t].tmp = Cur.optimization_level]
    /\ Goto(t, "O_wr")
    /\ UNCHANGED <<manager, obtained, config, state, heap, metrics, lock, flags, threadsv, ncalls,
                   cycles, finished, ghosts>>

\* ... and the write.
optimize_write(t) ==
    /\ pc[t] = "O_wr"
    /\ heap' = [heap EXCEPT ![loc[t].mref].optimization_level =
                                loc[t].tmp + LevelStep]
    /\ Goto(t, "O_lock2")
    /\ UNCHANGED <<manager, obtained, config, state, metrics, lock, flags, threadsv, loc, ncalls,
                   cycles, finished, ghosts>>

\* Lines 229-230.
optimize_reenter(t) ==
    /\ pc[t] = "O_lock2"
    /\ Acquire(t)
    /\ Goto(t, "O_restore")
    /\ UNCHANGED <<manager, obtained, config, state, heap, metrics, flags, threadsv, loc, ncalls,
                   cycles, finished, ghosts>>

optimize_restore(t) ==
    /\ pc[t] = "O_restore"
    /\ state' = loc[t].prev
    /\ Release(t)
    /\ Goto(t, "E_call")
    /\ UNCHANGED <<manager, obtained, config, heap, metrics, flags, threadsv, loc, ncalls, cycles,
                   finished, ghosts>>

\* Lines 123-124: the task function is called ...
task_call(t) ==
    /\ pc[t] = "E_call"
    /\ loc' = [loc EXCEPT ![t].calls = loc[t].calls + 1]
    /\ Goto(t, "E_task")
    /\ UNCHANGED <<manager, obtained, config, state, heap, metrics, lock, flags, threadsv, ncalls,
                   cycles, finished, ghosts>>

\* ... and returns after r ticks, line 125 ...
task_returns(t, R) ==
    /\ pc[t] = "E_task"
    /\ \E r \in R :
          loc' = [loc EXCEPT ![t].runtime = r, ![t].success = TRUE]
    /\ Goto(t, "U_rd_exec")
    /\ UNCHANGED <<manager, obtained, config, state, heap, metrics, lock, flags, threadsv, ncalls,
                   cycles, finished, ghosts>>

\* ... or raises: lines 135-138.
task_raises(t) ==
    /\ pc[t] = "E_task"
    /\ loc' = Handled(t, loc)
    /\ Goto(t, AfterHandler(t))
    /\ UNCHANGED <<manager, obtained, config, state, heap, metrics, lock, flags, threadsv, ncalls,
                   cycles, finished, ghosts>>

\* Line 139: time.sleep(0.1 * retries).
backoff(t) ==
    /\ pc[t] = "E_backoff"
    /\ Goto(t, "E_loop")
    /\ UNCHANGED <<manager, obtained, config, state, heap, metrics, lock, flags, threadsv, loc,
                   ncalls, cycles, finished, ghosts>>

\* ---------------------------------------------------- update_execution
\* Lines 128 and 144 evaluate self.metrics once: the method works on that
\* object.  Line 43, self.execution_count += 1: the read ...
update_read_execution_count(t) ==
    /\ pc[t] = "U_rd_exec"
    /\ loc' = [loc EXCEPT ![t].mref = metrics,
                          ![t].tmp = Cur.execution_count]
    /\ Goto(t, "U_wr_exec")
    /\ UNCHANGED <<manager, obtained, config, state, heap, metrics, lock, flags, threadsv, ncalls,
                   cycles, finished, ghosts>>

\* ... and the write.
update_write_execution_count(t) ==
    /\ pc[t] = "U_wr_exec"
    /\ heap' = [heap EXCEPT ![loc[t].mref].execution_count = loc[t].tmp + 1]
    /\ Goto(t, "U_rd_total")
    /\ UNCHANGED <<manager, obtained, config, state, metrics, lock, flags, threadsv, loc, ncalls,
                   cycles, finished, ghosts>>

\* Line 44, self.total_runtime += runtime: the read ...
update_read_total_runtime(t) ==
    /\ pc[t] = "U_rd_total"
    /\ loc' = [loc EXCEPT ![t].tmp = heap[loc[t].mref].total_runtime]
    /\ Goto(t, "U_wr_total")
    /\ UNCHANGED <<manager, obtained, config, state, heap, metrics, lock, flags, threadsv, ncalls,
                   cycles, finished, ghosts>>

\* ... and the write.
update_write_total_runtime(t) ==
    /\ pc[t] = "U_wr_total"
    /\ heap' = [heap EXCEPT ![loc[t].mref].total_runtime =
                                loc[t].tmp + loc[t].runtime]
    /\ Goto(t, "U_avg")
    /\ UNCHANGED <<manager, obtained, config, state, metrics, lock, flags, threadsv, loc, ncalls,
                   cycles, finished, ghosts>>

\* Lines 45-46: the quotient of the two fields as they are now, and
\* last_execution_time.
update_average_runtime(t) ==
    /\ pc[t] = "U_avg"
    /\ LET m == heap[loc[t].mref]
       IN heap' = [heap EXCEPT ![loc[t].mref].average_runtime =
                                   <<m.total_runtime, m.execution_count>>,
                               ![loc[t].mref].last_execution_time =
                                   loc[t].runtime]
    /\ Goto(t, "U_rd_cnt")
    /\ UNCHANGED <<manager, obtained, config, state, metrics, lock, flags, threadsv, loc, ncalls,
                   cycles, finished, ghosts>>

\* Lines 47-50, success_count += 1 or error_count += 1: the read ...
update_read_outcome_count(t) ==
    /\ pc[t] = "U_rd_cnt"
    /\ loc' = [loc EXCEPT ![t].tmp =
                  IF loc[t].success THEN heap[loc[t].mref].success_count
                                    ELSE heap[loc[t].mref].error_count]
    /\ Goto(t, "U_wr_cnt")
    /\ UNCHANGED <<manager, obtained, config, state, heap, metrics, lock, flags, threadsv, ncalls,
                   cycles, finished, ghosts>>

\* ... and the write.
update_write_outcome_count(t) ==
    /\ pc[t] = "U_wr_cnt"
    /\ heap' = IF loc[t].success
               THEN [heap EXCEPT ![loc[t].mref].success_count = loc[t].tmp + 1]
               ELSE [heap EXCEPT ![loc[t].mref].error_count = loc[t].tmp + 1]
    /\ Goto(t, "E_lock_end")
    /\ UNCHANGED <<manager, obtained, config, state, metrics, lock, flags, threadsv, loc, ncalls,
                   cycles, finished, ghosts>>

\* Lines 130 and 145.
execute_reenter(t) ==
    /\ pc[t] = "E_lock_end"
    /\ Acquire(t)
    /\ Goto(t, "E_end")
    /\ UNCHANGED <<manager, obtained, config, state, heap, metrics, flags, threadsv, loc, ncalls,
                   cycles, finished, ghosts>>

\* EndState that is IDLE after an error too.
EndStateAlwaysIdle(success) == "IDLE"

\* Lines 131 and 146: the state the call ends in.
EndState(success) == IF success THEN "IDLE" ELSE "ERROR"

\* Lines 131-133 (return result) and 146-147 (raise last_error).
execute_end(t) ==
    /\ pc[t] = "E_end"
    /\ state' = EndState(loc[t].success)
    /\ Release(t)
    /\ loc' = [loc EXCEPT ![t].result =
                  IF loc[t].success THEN "value" ELSE "raised"]
    /\ Goto(t, "E_done")
    /\ UNCHANGED <<manager, obtained, config, heap, metrics, flags, threadsv, ncalls, cycles,
                   finished, ghosts>>

\* execute_return without the try of lines 167-170: the exception ends the
\* worker's thread.
execute_return_uncaught(t) ==
    /\ pc[t] = "E_done"
    /\ finished' =
          [finished EXCEPT ![loc[t].result] = finished[loc[t].result] + 1]
    /\ loc' = [u \in Threads |->
                  IF u = t THEN Frame
                  ELSE [loc[u] EXCEPT !.inflight = loc[u].inflight \ {t}]]
    /\ stopWritten' = stopWritten \ {t}
    /\ IF t \in Workers /\ loc[t].result = "raised"
       THEN /\ wstatus' = [wstatus EXCEPT ![t] = "dead"]
            /\ Goto(t, "W_dead")
       ELSE /\ wstatus' = wstatus
            /\ Goto(t, IF t \in Workers THEN "W_sleep" ELSE "idle")
    /\ UNCHANGED <<manager, obtained, config, state, heap, metrics, lock, flags, thread, ncalls,
                   cycles, pauseActive, pauseMark, stopRet>>

\* The call is over: a caller has its result or its exception; a worker is
\* back in _run_continuous, lines 168-172, where an exception is logged.
execute_return(t) ==
    /\ pc[t] = "E_done"
    /\ finished' =
          [finished EXCEPT ![loc[t].result] = finished[loc[t].result] + 1]
    /\ loc' = [u \in Threads |->
                  IF u = t THEN Frame
                  ELSE [loc[u] EXCEPT !.inflight = loc[u].inflight \ {t}]]
    /\ stopWritten' = stopWritten \ {t}
    /\ Goto(t, IF t \in Workers THEN "W_sleep" ELSE "idle")
    /\ UNCHANGED <<manager, obtained, config, state, heap, metrics, lock, flags, threadsv, ncalls,
                   cycles, pauseActive, pauseMark, stopRet>>

execute(t, R) ==
    \/ execute_enter(t)
    \/ execute_running(t)
    \/ execute_loop(t)
    \/ should_optimize(t)
    \/ optimize_enter(t)
    \/ optimize_set(t)
    \/ optimize_read(t)
    \/ optimize_write(t)
    \/ optimize_reenter(t)
    \/ optimize_restore(t)
    \/ task_call(t)
    \/ task_returns(t, R)
    \/ task_raises(t)
    \/ backoff(t)
    \/ update_read_execution_count(t)
    \/ update_write_execution_count(t)
    \/ update_read_total_runtime(t)
    \/ update_write_total_runtime(t)
    \/ update_average_runtime(t)
    \/ update_read_outcome_count(t)
    \/ update_write_outcome_count(t)
    \/ execute_reenter(t)
    \/ execute_end(t)
    \/ execute_return(t)
\* ------------------------------------------------- calls by a caller
\* A caller that is between calls begins another one, while its budget lasts.
CanCall(c, bound) == pc[c] = "idle" /\ ncalls[c] < bound
Called(c) == ncalls' = [ncalls EXCEPT ![c] = ncalls[c] + 1]

\* execute(...) is called: line 96.
call_execute(c, bound) ==
    /\ CanCall(c, bound)
    /\ Called(c)
    /\ loc' = [loc EXCEPT ![c] = ExecuteFrame]
    /\ Goto(c, "E_enter")
    /\ UNCHANGED <<manager, obtained, config, state, heap, metrics, lock, flags, threadsv, cycles,
                   finished, ghosts>>

\* A metrics object is referenced by self.metrics and by the frames of the
\* update_execution and _optimize calls working on it; an object nothing
\* references is collected (its slot returns to the defaults).
Referenced(i) ==
    \/ \E t \in Threads :
          pc[t] \in (UpdatePcs \cup {"O_wr"}) /\ loc[t].mref = i
    \/ obtained.ref = i
    \/ \E c \in Controllers : rloc[c].ref = i

\* Line 208: self.metrics = ProcessMetrics(), a new object.
reset_metrics(c, bound) ==
    /\ CanCall(c, bound)
    /\ metrics < MaxResets
    /\ Called(c)
    /\ metrics' = metrics + 1
    /\ heap' = [i \in DOMAIN heap |->
                  IF i = metrics + 1 \/ (i = metrics /\ ~Referenced(metrics))
                  THEN ProcessMetrics ELSE heap[i]]
    /\ loc' = [loc EXCEPT ![c] = Frame]
    /\ UNCHANGED <<manager, obtained, config, state, lock, flags, threadsv, pc, cycles, finished,
                   ghosts>>

\* Lines 197-199: get_metrics returns self.metrics, the object itself.
get_metrics(c, bound) ==
    /\ CanCall(c, bound)
    /\ Called(c)
    /\ obtained' = [ref |-> metrics, seen |-> Cur]
    /\ loc' = [loc EXCEPT ![c] = [Frame EXCEPT !.result = "metrics"]]
    /\ UNCHANGED <<manager, config, state, heap, metrics, lock, flags, threadsv,
                   pc, cycles, finished, ghosts>>

\* Lines 203-204: get_state takes the lock ...
get_state_enter(c, bound) ==
    /\ CanCall(c, bound)
    /\ Called(c)
    /\ Acquire(c)
    /\ loc' = [loc EXCEPT ![c] = Frame]
    /\ Goto(c, "G_read")
    /\ UNCHANGED <<manager, obtained, config, state, heap, metrics, flags, threadsv, cycles,
                   finished, ghosts>>

\* ... and returns self.state.
get_state_return(c) ==
    /\ pc[c] = "G_read"
    /\ Release(c)
    /\ loc' = [loc EXCEPT ![c].result = state]
    /\ Goto(c, "idle")
    /\ UNCHANGED <<manager, obtained, config, state, heap, metrics, flags, threadsv, ncalls,
                   cycles, finished, ghosts>>

\* Line 179: pause sets the flag ...
pause_set(c, bound) ==
    /\ CanCall(c, bound)
    /\ Called(c)
    /\ pause_flag' = TRUE
    /\ loc' = [loc EXCEPT ![c] = Frame]
    /\ Goto(c, "P_lock")
    /\ UNCHANGED <<manager, obtained, config, state, heap, metrics, lock, stop_flag, threadsv,
                   cycles, finished, ghosts>>

\* ... line 180 ...
pause_enter(c) ==
    /\ pc[c] = "P_lock"
    /\ Acquire(c)
    /\ Goto(c, "P_write")
    /\ UNCHANGED <<manager, obtained, config, state, heap, metrics, flags, threadsv, loc, ncalls,
                   cycles, finished, ghosts>>

\* ... line 181, and returns.
pause_write(c) ==
    /\ pc[c] = "P_write"
    /\ state' = "PAUSED"
    /\ Release(c)
    /\ pauseActive' = TRUE
    /\ pauseMark' = cycles
    /\ loc' = [loc EXCEPT ![c].result = "paused"]
    /\ Goto(c, "idle")
    /\ UNCHANGED <<manager, obtained, config, heap, metrics, flags, threadsv, ncalls, cycles,
                   finished, stopRet, stopWritten>>

\* Line 185: resume clears the flag ...
resume_clear(c, bound) ==
    /\ CanCall(c, bound)
    /\ Called(c)
    /\ pause_flag' = FALSE
    /\ pauseActive' = FALSE
    /\ pauseMark' = 0
    /\ loc' = [loc EXCEPT ![c] = Frame]
    /\ Goto(c, "R_lock")
    /\ UNCHANGED <<manager, obtained, config, state, heap, metrics, lock, stop_flag, threadsv,
                   cycles, finished, stopRet, stopWritten>>

\* ... line 186 ...
resume_enter(c) ==
    /\ pc[c] = "R_lock"
    /\ Acquire(c)
    /\ Goto(c, "R_write")
    /\ UNCHANGED <<manager, obtained, config, state, heap, metrics, flags, threadsv, loc, ncalls,
                   cycles, finished, ghosts>>

\* ... line 187, and returns.
resume_write(c) ==
    /\ pc[c] = "R_write"
    /\ state' = "RUNNING"
    /\ Release(c)
    /\ loc' = [loc EXCEPT ![c].result = "resumed"]
    /\ Goto(c, "idle")
    /\ UNCHANGED <<manager, obtained, config, heap, metrics, flags, threadsv, ncalls, cycles,
                   finished, ghosts>>

\* ---------------------------------------------------------------- stop
\* Line 191: stop sets the flag.  The frame remembers which workers were alive
\* and which execute calls were in flight at the call, and how the caller's
\* previous call ended.
stop_set(c, bound) ==
    /\ CanCall(c, bound)
    /\ Called(c)
    /\ stop_flag' = TRUE
    /\ loc' = [loc EXCEPT ![c] =
                  [Frame EXCEPT !.inflight = {t \in Threads : InExecute(t)},
                                !.active = {w \in Workers : wstatus[w] = "alive"},
                                !.before = loc[c].result]]
    /\ Goto(c, "T_read")
    /\ UNCHANGED <<manager, obtained, config, state, heap, metrics, lock, pause_flag, threadsv,
                   cycles, finished, ghosts>>

\* stop_read_thread inside a with self._lock block that spans the join: the
\* lock is taken here and kept.
stop_read_thread_locked(c) ==
    /\ pc[c] = "T_read"
    /\ Acquire(c)
    /\ loc' = [loc EXCEPT ![c].target = thread]
    /\ Goto(c, "T_join")
    /\ UNCHANGED <<manager, obtained, config, state, heap, metrics, flags,
                   threadsv, ncalls, cycles, finished, ghosts>>

\* Lines 192-193: self._thread is read.
stop_read_thread(c) ==
    /\ pc[c] = "T_read"
    /\ loc' = [loc EXCEPT ![c].target = thread]
    /\ Goto(c, "T_join")
    /\ UNCHANGED <<manager, obtained, config, state, heap, metrics, lock, flags, threadsv, ncalls,
                   cycles, finished, ghosts>>

\* stop_join without the test of line 192: join is called on None.
stop_join_unguarded(c) ==
    /\ pc[c] = "T_join"
    /\ IF loc[c].target = NoThread
       THEN /\ loc' = [loc EXCEPT ![c] = [Frame EXCEPT !.result = "join_error"]]
            /\ Goto(c, "idle")
       ELSE /\ wstatus[loc[c].target] = "dead"
            /\ loc' = loc
            /\ Goto(c, "T_lock")
    /\ UNCHANGED <<manager, obtained, config, state, heap, metrics, lock, flags, threadsv, ncalls,
                   cycles, finished, ghosts>>

\* Line 193: there is no thread, or join returns because it has ended.
stop_join(c) ==
    /\ pc[c] = "T_join"
    /\ \/ loc[c].target = NoThread
       \/ /\ loc[c].target # NoThread
          /\ wstatus[loc[c].target] = "dead"
    /\ Goto(c, "T_lock")
    /\ UNCHANGED <<manager, obtained, config, state, heap, metrics, lock, flags, threadsv, loc,
                   ncalls, cycles, finished, ghosts>>

\* Where a thread can spend more than five seconds: inside the task function
\* and in time.sleep(interval).
LongPcs == {"E_task", "W_sleep"}

\* Line 193: join(timeout=5.0) returns after five seconds although the thread
\* is still alive.
stop_join_timeout(c) ==
    /\ pc[c] = "T_join"
    /\ loc[c].target # NoThread
    /\ wstatus[loc[c].target] = "alive"
    /\ pc[loc[c].target] \in LongPcs
    /\ Goto(c, "T_lock")
    /\ UNCHANGED <<manager, obtained, config, state, heap, metrics, lock, flags, threadsv, loc,
                   ncalls, cycles, finished, ghosts>>

\* Line 193: join raises RuntimeError on a thread that was not started yet;
\* stop ends without writing the state.
stop_join_unstarted(c) ==
    /\ pc[c] = "T_join"
    /\ loc[c].target # NoThread
    /\ wstatus[loc[c].target] = "created"
    /\ loc' = [loc EXCEPT ![c] = [Frame EXCEPT !.result = "join_error"]]
    /\ Goto(c, "idle")
    /\ UNCHANGED <<manager, obtained, config, state, heap, metrics, lock, flags, threadsv, ncalls,
                   cycles, finished, ghosts>>

\* Line 194.
stop_enter(c) ==
    /\ pc[c] = "T_lock"
    /\ Acquire(c)
    /\ Goto(c, "T_write")
    /\ UNCHANGED <<manager, obtained, config, state, heap, metrics, flags, threadsv, loc, ncalls,
                   cycles, finished, ghosts>>

\* Line 195, and stop returns.
stop_write(c) ==
    /\ pc[c] = "T_write"
    /\ state' = "STOPPED"
    /\ Release(c)
    /\ stopWritten' = stopWritten \cup loc[c].inflight
    /\ stopRet' = stopRet \cup loc[c].active
    /\ loc' = [loc EXCEPT ![c] = [Frame EXCEPT !.result = "stopped",
                                              !.before = loc[c].before]]
    /\ Goto(c, "idle")
    /\ UNCHANGED <<manager, obtained, config, heap, metrics, flags, threadsv, ncalls, cycles,
                   finished, pauseActive, pauseMark>>

\* ----------------------------------------------------- start_continuous
\* Thread objects a new Thread(...) can be given in the model: those that do
\* not exist or have ended, and that no stop is joining.
FreeWorkers(W) ==
    {w \in W : /\ wstatus[w] \in {"unborn", "dead"}
               /\ \A c \in Controllers : loc[c].target # w}

\* Lines 158-159: the test, and the error when the thread is alive.
start_continuous_check(c, bound) ==
    /\ CanCall(c, bound)
    /\ Called(c)
    /\ IF thread # NoThread /\ wstatus[thread] = "alive"
       THEN /\ loc' = [loc EXCEPT ![c] = [Frame EXCEPT !.result = "already_running"]]
            /\ pc' = pc
       ELSE /\ loc' = [loc EXCEPT ![c] = Frame]
            /\ Goto(c, "S_clr_stop")
    /\ UNCHANGED <<manager, obtained, config, state, heap, metrics, lock, flags, threadsv, cycles,
                   finished, ghosts>>

\* Line 161.
start_continuous_clear_stop(c) ==
    /\ pc[c] = "S_clr_stop"
    /\ stop_flag' = FALSE
    /\ Goto(c, "S_clr_pause")
    /\ UNCHANGED <<manager, obtained, config, state, heap, metrics, lock, pause_flag, threadsv,
                   loc, ncalls, cycles, finished, ghosts>>

\* Line 162.
start_continuous_clear_pause(c) ==
    /\ pc[c] = "S_clr_pause"
    /\ pause_flag' = FALSE
    /\ Goto(c, "S_new")
    /\ UNCHANGED <<manager, obtained, config, state, heap, metrics, lock, stop_flag, threadsv,
                   loc, ncalls, cycles, finished, ghosts>>

\* Line 174: self._thread = threading.Thread(...), not started yet.  What is
\* remembered about the object a worker name stood for before is dropped.
start_continuous_create(c, W) ==
    /\ pc[c] = "S_new"
    /\ FreeWorkers(W) # {}
    /\ LET w == CHOOSE x \in FreeWorkers(W) : TRUE
       IN /\ thread' = w
          /\ wstatus' = [wstatus EXCEPT ![w] = "created"]
          /\ pc' = [pc EXCEPT ![c] = "S_start", ![w] = "W_new"]
          /\ loc' = [loc EXCEPT ![w] = Frame]
          /\ stopRet' = stopRet \ {w}
          /\ stopWritten' = stopWritten \ {w}
    /\ pauseActive' = FALSE
    /\ pauseMark' = 0
    /\ UNCHANGED <<manager, obtained, config, state, heap, metrics, lock, flags, ncalls, cycles,
                   finished>>

\* Line 175: self._thread.start(), on the thread self._thread is now.
start_continuous_start(c) ==
    /\ pc[c] = "S_start"
    /\ thread # NoThread
    /\ wstatus[thread] = "created"
    /\ wstatus' = [wstatus EXCEPT ![thread] = "alive"]
    /\ pc' = [pc EXCEPT ![c] = "idle", ![thread] = "W_loop"]
    /\ loc' = [loc EXCEPT ![c].result = "started"]
    /\ UNCHANGED <<manager, obtained, config, state, heap, metrics, lock, flags, thread, ncalls,
                   cycles, finished, ghosts>>

\* Line 175 when another caller has started that thread already: start raises
\* RuntimeError.
start_continuous_start_twice(c) ==
    /\ pc[c] = "S_start"
    /\ thread # NoThread
    /\ wstatus[thread] # "created"
    /\ loc' = [loc EXCEPT ![c].result = "start_error"]
    /\ Goto(c, "idle")
    /\ UNCHANGED <<manager, obtained, config, state, heap, metrics, lock, flags, threadsv, ncalls,
                   cycles, finished, ghosts>>

\* ------------------------------------------------------ _run_continuous
\* Line 165: the loop test; the thread ends when the stop flag is set.
run_continuous_test(w) ==
    /\ pc[w] = "W_loop"
    /\ IF stop_flag
       THEN /\ wstatus' = [wstatus EXCEPT ![w] = "dead"]
            /\ Goto(w, "W_dead")
       ELSE /\ wstatus' = wstatus
            /\ Goto(w, "W_pause")
    /\ loc' = [loc EXCEPT ![w] = Frame]
    /\ UNCHANGED <<manager, obtained, config, state, heap, metrics, lock, flags, thread, ncalls,
                   cycles, finished, ghosts>>

\* run_continuous_cycle that does not look at the pause flag.
run_continuous_cycle_unpaused(w) ==
    /\ pc[w] = "W_pause"
    /\ cycles < MaxCycles
    /\ cycles' = cycles + 1
    /\ loc' = [loc EXCEPT ![w] = ExecuteFrame]
    /\ Goto(w, "E_enter")
    /\ UNCHANGED <<manager, obtained, config, state, heap, metrics, lock, flags, threadsv, ncalls,
                   finished, ghosts>>

\* Lines 166-168: not paused, a cycle begins with the call of execute.
run_continuous_cycle(w) ==
    /\ pc[w] = "W_pause"
    /\ ~pause_flag
    /\ cycles < MaxCycles
    /\ cycles' = cycles + 1
    /\ loc' = [loc EXCEPT ![w] = ExecuteFrame]
    /\ Goto(w, "E_enter")
    /\ UNCHANGED <<manager, obtained, config, state, heap, metrics, lock, flags, threadsv, ncalls,
                   finished, ghosts>>

\* Line 166: paused, the cycle is skipped.
run_continuous_skip(w) ==
    /\ pc[w] = "W_pause"
    /\ pause_flag
    /\ loc' = [loc EXCEPT ![w].result = "skipped"]
    /\ Goto(w, "W_sleep")
    /\ UNCHANGED <<manager, obtained, config, state, heap, metrics, lock, flags, threadsv, ncalls,
                   cycles, finished, ghosts>>

\* Line 172: time.sleep(interval).
run_continuous_sleep(w) ==
    /\ pc[w] = "W_sleep"
    /\ Goto(w, "W_loop")
    /\ UNCHANGED <<manager, obtained, config, state, heap, metrics, lock, flags, threadsv, loc,
                   ncalls, cycles, finished, ghosts>>

run_continuous(w, R) ==
    \/ run_continuous_test(w)
    \/ run_continuous_cycle(w)
    \/ run_continuous_skip(w)
    \/ run_continuous_sleep(w)
    \/ execute(w, R)
\* ------------------------------------------------- SuperProcessManager
\* The dict self.processes is the sequence of its items [name, proc], in
\* insertion order.
Keys(d) == {d[i].name : i \in DOMAIN d}
Lookup(d, n) == d[CHOOSE i \in DOMAIN d : d[i].name = n].proc
Without(d, n) == SelectSeq(d, LAMBDA e : e.name # n)

\* The supervisor vars a method of the manager leaves alone unless it calls
\* into Main.
main == <<config, state, heap, metrics, lock, flags, threadsv, cycles, finished,
         ghosts>>

MGoto(c, p) == rpc' = [rpc EXCEPT ![c] = p]
\* The method returns r (or raises it), leaving the with block.
MReturn(c, r) ==
    /\ rlock = c
    /\ rlock' = NoThread
    /\ rloc' = [rloc EXCEPT ![c].result = r, ![c].todo = <<>>,
                            ![c].cur = NoProcess, ![c].then = "",
                            ![c].entry = NoEntry, ![c].ref = NoObject]
    /\ MGoto(c, "idle")

ManagerOps ==
    {"register", "unregister", "get_all_metrics", "stop_all", "get_summary"}
ManagerArgs(op) ==
    IF op = "register" THEN Supervisors
    ELSE IF op = "unregister" THEN Names ELSE {""}

\* A method of the manager is called by a caller that is between calls.
manager_call(c, bound) ==
    /\ rpc[c] = "idle"
    /\ CanCall(c, bound)
    /\ Called(c)
    /\ \E op \in ManagerOps : \E a \in ManagerArgs(op) :
          rloc' = [rloc EXCEPT ![c] = [ManagerFrame EXCEPT !.op = op, !.arg = a]]
    /\ MGoto(c, "M_lock")
    /\ loc' = [loc EXCEPT ![c] = Frame]
    /\ UNCHANGED <<main, obtained, pc, processes, rlock, passive>>

\* with self._lock: lines 262, 274, 299, 304, 315.  The loops iterate over
\* the dict as it is now; it cannot change while the lock is held.
manager_acquire(c) ==
    /\ rpc[c] = "M_lock"
    /\ rlock = NoThread
    /\ rlock' = c
    /\ rloc' = [rloc EXCEPT ![c].todo = processes]
    /\ MGoto(c, rloc[c].op)
    /\ UNCHANGED <<main, obtained, pc, loc, ncalls, processes, passive>>

\* register without the test of line 263: the assignment of line 265 replaces
\* the supervisor the name stood for.
register_unchecked(c) ==
    /\ rpc[c] = "register"
    /\ processes' =
          IF NameOf[rloc[c].arg] \in Keys(processes)
          THEN [i \in DOMAIN processes |->
                  IF processes[i].name = NameOf[rloc[c].arg]
                  THEN [processes[i] EXCEPT !.proc = rloc[c].arg]
                  ELSE processes[i]]
          ELSE Append(processes,
                      [name |-> NameOf[rloc[c].arg], proc |-> rloc[c].arg])
    /\ MReturn(c, "registered")
    /\ UNCHANGED <<main, obtained, pc, loc, ncalls, passive>>

\* Lines 263-265.
register(c) ==
    /\ rpc[c] = "register"
    /\ IF NameOf[rloc[c].arg] \in Keys(processes)
       THEN /\ processes' = processes
            /\ MReturn(c, "duplicate")
       ELSE /\ processes' = Append(processes,
                                   [name |-> NameOf[rloc[c].arg],
                                    proc |-> rloc[c].arg])
            /\ MReturn(c, "registered")
    /\ UNCHANGED <<main, obtained, pc, loc, ncalls, passive>>

\* Lines 275-276: the test, and the supervisor whose stop() is called.
unregister_test(c) ==
    /\ rpc[c] = "unregister"
    /\ IF rloc[c].arg \in Keys(processes)
       THEN /\ rloc' = [rloc EXCEPT ![c].cur = Lookup(processes, rloc[c].arg),
                                    ![c].then = "unregister_del"]
            /\ MGoto(c, "M_stop")
            /\ rlock' = rlock
       ELSE MReturn(c, "absent")
    /\ UNCHANGED <<main, obtained, pc, loc, ncalls, processes, passive>>

\* Line 277: del self.processes[name].
unregister_delete(c) ==
    /\ rpc[c] = "unregister_del"
    /\ processes' = Without(processes, rloc[c].arg)
    /\ MReturn(c, "removed")
    /\ UNCHANGED <<main, obtained, pc, loc, ncalls, passive>>

\* Lines 305-306: the loop of stop_all.
stop_all_next(c) ==
    /\ rpc[c] = "stop_all"
    /\ IF rloc[c].todo = <<>>
       THEN /\ MReturn(c, "all_stopped")
            /\ loc' = loc
       ELSE /\ rloc' = [rloc EXCEPT ![c].cur = Head(rloc[c].todo).proc,
                                    ![c].todo = Tail(rloc[c].todo),
                                    ![c].then = "stop_all"]
            /\ MGoto(c, "M_stop")
            /\ rlock' = rlock
            /\ loc' = [loc EXCEPT ![c] = Frame]
    /\ UNCHANGED <<main, obtained, pc, ncalls, processes, passive>>

\* Lines 276 and 306 on Main: stop() is called, line 191; its steps are those
\* of stop.
manager_stop(c) ==
    /\ rpc[c] = "M_stop"
    /\ rloc[c].cur = Main
    /\ loc[c].result = ""
    /\ stop_set(c, ncalls[c] + 1)

\* stop() on Main has returned, or has raised: the exception leaves the
\* method of the manager.
manager_stop_returns(c) ==
    /\ rpc[c] = "M_stop"
    /\ rloc[c].cur = Main
    /\ pc[c] = "idle"
    /\ loc[c].result # ""
    /\ IF loc[c].result = "stopped"
       THEN /\ MGoto(c, rloc[c].then)
            /\ UNCHANGED <<rlock, rloc>>
       ELSE MReturn(c, "error")
    /\ UNCHANGED <<main, obtained, pc, loc, ncalls, processes, passive>>

\* Lines 276 and 306 on another supervisor: line 191 of its stop() ...
passive_stop_set(c) ==
    /\ rpc[c] = "M_stop"
    /\ rloc[c].cur \in Passive
    /\ passive' = [passive EXCEPT ![rloc[c].cur].stop_flag = TRUE]
    /\ MGoto(c, "M_stop_write")
    /\ UNCHANGED <<main, obtained, pc, loc, ncalls, processes, rlock, rloc>>

\* ... line 192 finds no thread, lines 194-195 write STOPPED under the
\* supervisor's lock, which nobody else takes.
passive_stop_write(c) ==
    /\ rpc[c] = "M_stop_write"
    /\ passive' = [passive EXCEPT ![rloc[c].cur].state = "STOPPED"]
    /\ MGoto(c, rloc[c].then)
    /\ UNCHANGED <<main, obtained, pc, loc, ncalls, processes, rlock, rloc>>

\* Line 300: the loop of get_all_metrics; proc.get_metrics() is the object
\* self.metrics of each supervisor.  The dict returned holds Main's object
\* if Main is registered.
get_all_metrics_next(c) ==
    /\ rpc[c] = "get_all_metrics"
    /\ IF rloc[c].todo = <<>>
       THEN /\ MReturn(c, "metrics")
            /\ obtained' = IF rloc[c].ref = NoObject THEN obtained
                           ELSE [ref |-> rloc[c].ref, seen |-> heap[rloc[c].ref]]
       ELSE /\ LET item == Head(rloc[c].todo)
               IN rloc' = [rloc EXCEPT
                     ![c].todo = Tail(rloc[c].todo),
                     ![c].ref = IF item.proc = Main THEN metrics ELSE rloc[c].ref,
                     ![c].out = Append(rloc[c].out, item.name)]
            /\ UNCHANGED <<rlock, rpc, obtained>>
    /\ UNCHANGED <<main, pc, loc, ncalls, processes, passive>>

\* success_count / execution_count, or 0: lines 321-324 on values at hand.
SuccessRate(m) ==
    IF m.execution_count > 0 THEN <<m.success_count, m.execution_count>>
    ELSE <<0, 1>>

\* Lines 316-327: the loop of get_summary.  An entry for another supervisor
\* is built at once, nothing runs beside it; the entry for Main is built in
\* the steps below.
get_summary_next(c) ==
    /\ rpc[c] = "get_summary"
    /\ IF rloc[c].todo = <<>>
       THEN /\ rlock = c
            /\ rlock' = NoThread
            /\ rloc' = [rloc EXCEPT ![c].result = "summary",
                                    ![c].total = Len(processes)]
            /\ MGoto(c, "idle")
            /\ loc' = loc
       ELSE LET item == Head(rloc[c].todo)
            IN /\ rlock' = rlock
               /\ loc' = [loc EXCEPT ![c] = Frame]
               /\ IF item.proc = Main
                  THEN /\ rloc' = [rloc EXCEPT
                             ![c].todo = Tail(rloc[c].todo),
                             ![c].cur = Main,
                             ![c].entry = [NoEntry EXCEPT !.name = item.name]]
                       /\ MGoto(c, "S_state")
                  ELSE /\ rloc' = [rloc EXCEPT
                             ![c].todo = Tail(rloc[c].todo),
                             ![c].out = Append(rloc[c].out,
                                [name |-> item.name,
                                 state |-> passive[item.proc].state,
                                 executions |->
                                     PassiveMetrics[item.proc].execution_count,
                                 rate |-> SuccessRate(PassiveMetrics[item.proc])])]
                       /\ rpc' = rpc
    /\ UNCHANGED <<main, obtained, pc, ncalls, processes, passive>>

\* Line 319 on Main: get_state() is called; its steps are those of get_state.
get_summary_state(c) ==
    /\ rpc[c] = "S_state"
    /\ loc[c].result = ""
    /\ get_state_enter(c, ncalls[c] + 1)

\* Lines 319-320: get_state() has returned; proc.metrics.execution_count.
get_summary_executions(c) ==
    /\ rpc[c] = "S_state"
    /\ pc[c] = "idle"
    /\ loc[c].result # ""
    /\ rloc' = [rloc EXCEPT ![c].entry.state = loc[c].result,
                            ![c].entry.executions = Cur.execution_count]
    /\ MGoto(c, "S_test")
    /\ UNCHANGED <<main, obtained, pc, loc, ncalls, processes, rlock, passive>>

\* get_summary_test without the test of line 323: always the division.
get_summary_test_unguarded(c) ==
    /\ rpc[c] = "S_test"
    /\ rloc' = rloc
    /\ MGoto(c, "S_success")
    /\ UNCHANGED <<main, obtained, pc, loc, ncalls, processes, rlock, passive>>

\* Line 323: if proc.metrics.execution_count > 0 else 0.
get_summary_test(c) ==
    /\ rpc[c] = "S_test"
    /\ IF Cur.execution_count > 0
       THEN /\ rloc' = rloc
            /\ MGoto(c, "S_success")
       ELSE /\ rloc' = [rloc EXCEPT ![c].out = Append(rloc[c].out, rloc[c].entry),
                                    ![c].entry = NoEntry, ![c].cur = NoProcess]
            /\ MGoto(c, "get_summary")
    /\ UNCHANGED <<main, obtained, pc, loc, ncalls, processes, rlock, passive>>

\* Line 322: proc.metrics.success_count, the left operand.
get_summary_success(c) ==
    /\ rpc[c] = "S_success"
    /\ rloc' = [rloc EXCEPT ![c].entry.rate = <<Cur.success_count, 1>>]
    /\ MGoto(c, "S_divide")
    /\ UNCHANGED <<main, obtained, pc, loc, ncalls, processes, rlock, passive>>

\* Line 322: proc.metrics.execution_count, the right operand, and the
\* division: a ZeroDivisionError if the metrics were replaced since line 323.
get_summary_divide(c) ==
    /\ rpc[c] = "S_divide"
    /\ IF Cur.execution_count = 0
       THEN MReturn(c, "error")
       ELSE /\ rloc' = [rloc EXCEPT
                  ![c].out = Append(rloc[c].out,
                      [rloc[c].entry EXCEPT !.rate =
                          <<rloc[c].entry.rate[1], Cur.execution_count>>]),
                  ![c].entry = NoEntry, ![c].cur = NoProcess]
            /\ MGoto(c, "get_summary")
            /\ rlock' = rlock
    /\ UNCHANGED <<main, obtained, pc, loc, ncalls, processes, passive>>

\* The steps of a caller inside a method of the manager.
manager_step(c) ==
    \/ manager_acquire(c)
    \/ register(c)
    \/ unregister_test(c)
    \/ unregister_delete(c)
    \/ stop_all_next(c)
    \/ manager_stop(c)
    \/ manager_stop_returns(c)
    \/ passive_stop_set(c)
    \/ passive_stop_write(c)
    \/ get_all_metrics_next(c)
    \/ get_summary_next(c)
    \/ get_summary_state(c)
    \/ get_summary_executions(c)
    \/ get_summary_test(c)
    \/ get_summary_success(c)
    \/ get_summary_divide(c)
    \/ get_state_return(c)

\* ------------------------------------------------------ specifications
\* The state after SuperProcess.__init__ (lines 83-94) with the given
\* max_retries, auto_optimize left to the caller and a metrics object m0; the
\* supervisor of AgedMetrics is in state ERROR with ten calls ended by an error.
ConstructedSupervisor(retries, m0) ==
    /\ max_retries \in retries
    /\ auto_optimize \in BOOLEAN
    /\ state = IF m0 = ProcessMetrics THEN "IDLE" ELSE "ERROR"
    /\ heap = [i \in 0..MaxResets |-> IF i = 0 THEN m0 ELSE ProcessMetrics]
    /\ metrics = 0
    /\ lock = NoThread
    /\ stop_flag = FALSE
    /\ pause_flag = FALSE
    /\ thread = NoThread
    /\ wstatus = [w \in Workers |-> "unborn"]
    /\ pc = [t \in Threads |-> IF t \in Workers THEN "W_unborn" ELSE "idle"]
    /\ loc = [t \in Threads |-> Frame]
    /\ ncalls = [c \in Controllers |-> 0]
    /\ cycles = 0
    /\ finished = [value |-> 0, raised |-> m0.error_count, None |-> 0]
    /\ pauseActive = FALSE
    /\ pauseMark = 0
    /\ stopRet = {}
    /\ stopWritten = {}
    /\ obtained = [ref |-> NoObject, seen |-> ProcessMetrics]

\* The state after SuperProcessManager.__init__ (lines 250-253) and the
\* registrations d, with the other supervisors as constructed.
Registered(d) ==
    /\ processes = d
    /\ rlock = NoThread
    /\ passive = [p \in Passive |-> [state |-> "IDLE", stop_flag |-> FALSE]]
    /\ rpc = [c \in Controllers |-> "idle"]
    /\ rloc = [c \in Controllers |-> ManagerFrame]

\* A supervisor and a manager nothing is registered with.
Constructed(retries, m0) ==
    ConstructedSupervisor(retries, m0) /\ Registered(<<>>)

\* One caller, one call after the other, on a new supervisor of any
\* max_retries from -1 up.
InitSeq == Constructed(-1..MaxRetries, ProcessMetrics)

NextSeq ==
    \/ call_execute("c1", MaxSeqCalls)
    \/ execute("c1", Runtimes)
    \/ reset_metrics("c1", MaxSeqCalls)
    \/ get_state_enter("c1", MaxSeqCalls)
    \/ get_state_return("c1")

SpecSeq == InitSeq /\ [][NextSeq]_vars
\* The calls of the continuous-mode interface a caller c makes, on workers W.
control(c, W, bound) ==
    \/ start_continuous_check(c, bound)
    \/ start_continuous_clear_stop(c)
    \/ start_continuous_clear_pause(c)
    \/ start_continuous_create(c, W)
    \/ start_continuous_start(c)
    \/ pause_set(c, bound)
    \/ pause_enter(c)
    \/ pause_write(c)
    \/ resume_clear(c, bound)
    \/ resume_enter(c)
    \/ resume_write(c)
    \/ stop_set(c, bound)
    \/ stop_read_thread(c)
    \/ stop_join(c)
    \/ stop_join_timeout(c)
    \/ stop_enter(c)
    \/ stop_write(c)

\* A supervisor that is new, or one whose task has failed ten times.
InitAny(retries) ==
    \/ Constructed(retries, ProcessMetrics)
    \/ Constructed(retries, AgedMetrics)

\* One caller that reads the metrics between its calls of execute and
\* reset_metrics, on a supervisor that is new or has failed ten times.
NextSnap ==
    \/ call_execute("c1", MaxSnapCalls)
    \/ execute("c1", OneRuntime)
    \/ reset_metrics("c1", MaxSnapCalls)
    \/ get_metrics("c1", MaxSnapCalls)

SpecSnap == InitAny(1..MaxRetries) /\ [][NextSnap]_vars

\* One caller that uses the continuous-mode interface, and the worker it
\* starts.  A supervisor of max_retries 0 records no execution, so its
\* metrics are the new ones.
Init == InitAny(1..MaxRetries) \/ Constructed({0}, ProcessMetrics)

Next ==
    \/ control("c1", {"w1"}, MaxCalls)
    \/ run_continuous("w1", OneRuntime)

Spec == Init /\ [][Next]_vars

\* The steps of a call a caller has begun: a thread that is inside a method
\* goes on running.
proceed(c) ==
    \/ start_continuous_clear_stop(c)
    \/ start_continuous_clear_pause(c)
    \/ start_continuous_create(c, {"w1"})
    \/ start_continuous_start(c)
    \/ pause_enter(c)
    \/ pause_write(c)
    \/ resume_enter(c)
    \/ resume_write(c)
    \/ stop_read_thread(c)
    \/ stop_join(c)
    \/ stop_join_timeout(c)
    \/ stop_enter(c)
    \/ stop_write(c)

\* Spec under a fair scheduler: the worker's thread and a caller inside a
\* method are not held up for ever (the task function returns or raises).
SpecLive ==
    /\ Init
    /\ [][Next]_vars
    /\ WF_vars(run_continuous("w1", OneRuntime))
    /\ WF_vars(proceed("c1"))

\* One caller that starts continuous mode and calls execute and reset_metrics
\* itself while the worker runs.
NextDirect ==
    \/ control("c1", {"w1"}, MaxDirectCalls)
    \/ call_execute("c1", MaxDirectCalls)
    \/ reset_metrics("c1", MaxDirectCalls)
    \/ execute("c1", OneRuntime)
    \/ run_continuous("w1", OneRuntime)

SpecDirect == Init /\ [][NextDirect]_vars

\* The manager as two callers use it: empty, or after register(s1), or after
\* register(s1) and register(s3).
Registrations ==
    {<<>>, <<[name |-> "a", proc |-> "s1"]>>,
     <<[name |-> "a", proc |-> "s1"], [name |-> "b", proc |-> "s3"]>>}

\* Main retries, optimizes, and its task has failed ten times.
InitManager ==
    /\ ConstructedSupervisor({MaxRetries}, AgedMetrics)
    /\ auto_optimize
    /\ \E d \in Registrations : Registered(d)

\* The calls a caller may begin on Main itself: none while it is inside a
\* method of the manager.
DirectCalls(c, bound) == IF rpc[c] = "idle" THEN bound ELSE 0

\* One caller that calls the manager's methods and starts, pauses, resumes
\* and stops Main's continuous mode itself, and the worker it starts.
NextManager ==
    \/ manager_call("c1", MaxManagerCalls)
    \/ manager_step("c1")
    \/ control("c1", {"w1"}, DirectCalls("c1", MaxManagerCalls))
    \/ run_continuous("w1", OneRuntime)

SpecManager == InitManager /\ [][NextManager]_vars

\* The same beside a second caller that takes Main's lock in get_state.
NextManagerLive ==
    \/ NextManager
    \/ get_state_enter("c2", MaxOtherCalls)
    \/ get_state_return("c2")

\* Under a fair scheduler: the worker and a caller inside a method go on
\* running (the task function returns or raises).
SpecManagerLive ==
    /\ InitManager
    /\ [][NextManagerLive]_vars
    /\ WF_vars(run_continuous("w1", OneRuntime))
    /\ WF_vars(proceed("c1"))
    /\ WF_vars(manager_step("c1"))
    /\ WF_vars(get_state_return("c2"))

\* Two callers that call the manager's methods at the same time, on
\* supervisors nobody runs: Main is new, or its task has failed ten times.
InitRegistry ==
    /\ \/ ConstructedSupervisor({MaxRetries}, ProcessMetrics)
       \/ ConstructedSupervisor({MaxRetries}, AgedMetrics)
    /\ \E d \in Registrations : Registered(d)

NextRegistry ==
    \E c \in Controllers :
        \/ manager_call(c, MaxRegistryCalls)
        \/ manager_step(c)
        \/ stop_read_thread(c)
        \/ stop_join(c)
        \/ stop_enter(c)
        \/ stop_write(c)

SpecRegistry == InitRegistry /\ [][NextRegistry]_vars

\* Two callers that use the continuous-mode interface at the same time; a
\* caller can then meet a thread the other one has created and not started, or
\* has started already.
NextTwo ==
    \/ \E c \in Controllers :
          \/ control(c, Workers, MaxRaceCalls)
          \/ start_continuous_start_twice(c)
          \/ stop_join_unstarted(c)
    \/ \E w \in Workers : run_continuous(w, OneRuntime)

SpecTwo == Init /\ [][NextTwo]_vars

\* ------------------------------------------------------------- claims
\* The caller of the sequential specification.
Caller == "c1"
\* The caller has its answer from execute and has not gone on yet.
Returned(t) == pc[t] = "E_done"
\* What the call has added to the three counters of the current metrics.
Delta(t) ==
    <<Cur.execution_count - loc[t].base[1], Cur.success_count - loc[t].base[2],
      Cur.error_count - loc[t].base[3]>>

\* The calls of execute that have returned to their caller without raising.
ReturnedCalls == finished.value + finished.None

\* C2: on a new supervisor whose metrics were never reset, once N >= 1 calls
\* of execute have ended and each returned (none raised), the counters are
\* execution_count = N, success_count = N, error_count = 0 and
\* average_runtime = total_runtime / N.
C2_AllSuccessful ==
    (/\ pc[Caller] = "idle"
     /\ metrics = 0
     /\ ReturnedCalls >= 1
     /\ finished.raised = 0)
    => /\ Cur.execution_count = ReturnedCalls
       /\ Cur.success_count = ReturnedCalls
       /\ Cur.error_count = 0
       /\ SameQuotient(Cur.average_runtime,
                       <<Cur.total_runtime, ReturnedCalls>>)

\* C3: with max_retries >= 1, a call of execute in which the task failed k
\* times and then returned (k = retries) has called the task k + 1 <=
\* max_retries times, returns the task's result, has added exactly one to
\* execution_count and to success_count and nothing to error_count, and
\* leaves the state IDLE.
C3_RetryThenSuccess ==
    (Returned(Caller) /\ max_retries >= 1 /\ loc[Caller].success)
    => /\ loc[Caller].result = "value"
       /\ loc[Caller].calls = loc[Caller].retries + 1
       /\ loc[Caller].calls <= max_retries
       /\ Delta(Caller) = <<1, 1, 0>>
       /\ state = "IDLE"

C3_Witness ==
    /\ Returned(Caller)
    /\ loc[Caller].success
    /\ loc[Caller].retries >= 1
    /\ loc[Caller].base[1] >= 1

\* C4: with max_retries >= 1, a call of execute in which the task failed at
\* every attempt has called the task exactly max_retries times, raises the
\* task's error, leaves the state ERROR and has added exactly one to
\* error_count and to execution_count and nothing to success_count.
C4_RetriesExhausted ==
    (Returned(Caller) /\ max_retries >= 1 /\ ~loc[Caller].success)
    => /\ loc[Caller].result = "raised"
       /\ loc[Caller].calls = max_retries
       /\ loc[Caller].retries = max_retries
       /\ Delta(Caller) = <<1, 0, 1>>
       /\ state = "ERROR"

C4_Witness ==
    /\ Returned(Caller)
    /\ ~loc[Caller].success
    /\ max_retries >= 2
    /\ loc[Caller].result = "raised"
    /\ loc[Caller].base[1] >= 1

\* C5: a supervisor with max_retries <= 0 behaves as one with max_retries =
\* 1: a call of execute that ends has called the task once and either
\* returns its result with the state IDLE or raises its error with the state
\* ERROR.
C5_NonPositiveRetries ==
    (Returned(Caller) /\ max_retries <= 0)
    => /\ loc[Caller].calls = 1
       /\ \/ loc[Caller].result = "value" /\ state = "IDLE"
          \/ loc[Caller].result = "raised" /\ state = "ERROR"
\* No thread is inside update_execution.
NoUpdateInProgress ==
    \A t \in Threads : pc[t] \notin (UpdatePcs \cup {"U_rd_exec"})

\* C1: whenever no update_execution call is in progress, execution_count =
\* success_count + error_count, also when a caller runs execute while the
\* continuous worker runs it.
C1_CountsAddUp ==
    NoUpdateInProgress
    => Cur.execution_count = Cur.success_count + Cur.error_count

\* The Thread objects that are alive.
AliveWorkers == {w \in Workers : wstatus[w] = "alive"}

\* C6: at most one continuous worker is alive, whatever callers interleave
\* start_continuous, stop, pause and resume.
C6_OneWorker == Cardinality(AliveWorkers) <= 1

\* The worker of the specifications with one caller.
Worker == "w1"

\* C7: once pause() has returned, and until resume() is called, the
\* continuous worker begins no execute cycle: the count of cycles begun stays
\* what it was when pause() returned (a cycle begun before may still run).
C7_NoCycleWhilePaused == pauseActive => cycles = pauseMark

C7_Witness ==
    /\ pauseActive
    /\ wstatus[Worker] = "alive"
    /\ pc[Worker] = "W_sleep"
    /\ loc[Worker].result = "skipped"
    /\ cycles >= 1

\* Thread t calls the task function in this step.
CallsTask(t) == pc[t] = "E_call" /\ pc'[t] = "E_task"

\* C8: a worker that was alive when a stop() was called does not call the
\* task function after that stop() has returned.
C8_NoCallAfterStop == [][\A w \in stopRet : ~CallsTask(w)]_vars

\* Thread t writes self.state in this step.
WritesState(t) ==
    pc[t] \in {"E_run", "O_set", "O_restore", "E_end"} /\ pc'[t] # pc[t]

\* C9: an execute that was in flight when stop() was called writes the state
\* no more once that stop() has written STOPPED.
C9_NoWriteAfterStopped == [][\A t \in stopWritten : ~WritesState(t)]_vars

\* C10: while the worker's thread was started and the stop and pause flags
\* are clear, the worker begins another cycle, or a flag is set first; a cycle
\* that ended with an error does not end the thread.  (MaxCycles bounds the
\* cycles of the model.)
C10_NextCycle ==
    \A n \in 0..(MaxCycles - 1) :
        [](( /\ thread = Worker
             /\ wstatus[Worker] \in {"alive", "dead"}
             /\ ~stop_flag
             /\ ~pause_flag
             /\ cycles = n )
           => <>(cycles > n \/ stop_flag \/ pause_flag))

C10_Witness ==
    /\ wstatus[Worker] = "alive"
    /\ pc[Worker] = "E_enter"
    /\ cycles = 2
    /\ finished.raised \in {1, MinExecutions + 1}
    /\ ~pauseActive

\* C11: while the worker is alive and the caller's last call is a pause()
\* that has returned (no resume, stop, start_continuous or execute call
\* since), the state is PAUSED, whatever the worker does.
C11_PausedStays ==
    (/\ pc[Caller] = "idle"
     /\ loc[Caller].result = "paused"
     /\ thread = Worker
     /\ wstatus[Worker] = "alive")
    => state = "PAUSED"

\* The positions of a caller inside stop.
StopPcs == {"T_read", "T_join", "T_lock", "T_write"}
\* Caller c takes a step of stop in this step.
StopStep(c) == pc'[c] # pc[c] /\ (pc[c] \in StopPcs \/ pc'[c] = "T_read")
\* The caller's previous call was a stop() that returned.
SecondStop(c) ==
    IF pc[c] = "idle" THEN loc[c].result = "stopped"
    ELSE loc[c].before = "stopped"

\* C12: a stop() on a supervisor whose continuous mode was never started, or
\* one that follows a stop() at once, changes neither the configuration nor
\* the metrics at any of its steps, raises no error, and writes STOPPED
\* when it returns.
C12_StopIdempotent ==
    [][(StopStep(Caller) /\ (thread = NoThread \/ SecondStop(Caller)))
       => /\ UNCHANGED <<config, heap, metrics>>
          /\ pc'[Caller] = "idle"
               => state' = "STOPPED" /\ loc'[Caller].result = "stopped"]_vars

\* A second stop() has returned while the worker the first one left is gone.
C12_Witness ==
    /\ pc[Caller] = "idle"
    /\ loc[Caller].result = "stopped"
    /\ loc[Caller].before = "stopped"
    /\ state = "STOPPED"
    /\ wstatus[Worker] = "dead"

\* C13: what get_metrics() returned is a snapshot: the object the caller
\* holds keeps the value it had when it was returned, whatever execute,
\* reset_metrics or the optimization hook do afterwards.
C13_Snapshot ==
    obtained.ref # NoObject => heap[obtained.ref] = obtained.seen

\* No name is registered twice.
KeysUnique ==
    \A i, j \in DOMAIN processes :
        processes[i].name = processes[j].name => i = j
\* Caller c returns from register in this step.
RegisterReturns(c) == rpc[c] = "register" /\ rpc'[c] = "idle"

\* C14: the registered names stay unique; a register(p) whose name is
\* registered raises the duplicate-name error and leaves the mapping, and the
\* state and metrics of the supervisor registered first, as they were;
\* otherwise it adds p under its name.  Of two callers that register the
\* same name at the same time one succeeds.
C14_UniqueNames ==
    /\ []KeysUnique
    /\ [][\A c \in Controllers :
             RegisterReturns(c) =>
                LET p == rloc[c].arg
                IN IF NameOf[p] \in Keys(processes)
                   THEN /\ rloc'[c].result = "duplicate"
                        /\ UNCHANGED <<processes, passive, state, heap, metrics>>
                   ELSE /\ rloc'[c].result = "registered"
                        /\ Keys(processes') = Keys(processes) \cup {NameOf[p]}
                        /\ Lookup(processes', NameOf[p]) = p
                        /\ \A n \in Keys(processes) :
                              Lookup(processes', n) = Lookup(processes, n)]_vars

\* Two callers have registered different supervisors of one name: one was
\* registered, the other refused.
C14_Witness ==
    /\ \A c \in Controllers : rpc[c] = "idle" /\ rloc[c].op = "register"
    /\ rloc["c1"].arg # rloc["c2"].arg
    /\ NameOf[rloc["c1"].arg] = NameOf[rloc["c2"].arg]
    /\ {rloc["c1"].result, rloc["c2"].result} = {"registered", "duplicate"}
    /\ ncalls["c1"] = 1
    /\ ncalls["c2"] = 1

\* self.state of a supervisor, and whether a continuous worker of it is alive.
StateOf(p) == IF p = Main THEN state ELSE passive[p].state
WorkerAlive(p) == p = Main /\ AliveWorkers # {}
\* The same after the step.
StateAfter(p) == IF p = Main THEN state' ELSE passive'[p].state
WorkerAliveAfter(p) == p = Main /\ \E w \in Workers : wstatus'[w] = "alive"
\* Caller c returns from the manager's method op in this step, or leaves it
\* by an exception.
ManagerReturns(c, op) ==
    rloc[c].op = op /\ rpc[c] \notin {"idle", "M_lock"} /\ rpc'[c] = "idle"
\* Caller c takes a step inside the manager's method op.
ManagerStep(c, op) ==
    /\ rloc[c].op = op
    /\ rpc[c] # "idle"
    /\ rpc'[c] # rpc[c] \/ pc'[c] # pc[c]

\* C15: unregister(name) of a name that is absent returns without an error
\* and leaves the mapping; of a name that is present it returns with the name
\* absent, the supervisor's state STOPPED and no worker of it alive; none of
\* its steps changes another registered supervisor or its entry.
C15_Unregister ==
    [][\A c \in Controllers :
          /\ ManagerReturns(c, "unregister") =>
                IF rloc[c].arg \notin Keys(processes)
                THEN rloc'[c].result = "absent" /\ processes' = processes
                ELSE LET p == Lookup(processes, rloc[c].arg)
                     IN /\ rloc'[c].result = "removed"
                        /\ processes' = Without(processes, rloc[c].arg)
                        /\ StateAfter(p) = "STOPPED"
                        /\ ~WorkerAliveAfter(p)
          /\ ManagerStep(c, "unregister") =>
                \A n \in Keys(processes) \ {rloc[c].arg} :
                    LET q == Lookup(processes, n)
                    IN /\ n \in Keys(processes')
                       /\ Lookup(processes', n) = q
                       /\ StateAfter(q) = StateOf(q)
                       /\ q = Main => UNCHANGED <<heap, metrics, flags, thread>>]_vars

\* C16: when stop_all() returns, every registered supervisor is in state
\* STOPPED and none has a worker alive, and the mapping is what it was.
C16_StopAll ==
    [][\A c \in Controllers :
          ManagerReturns(c, "stop_all") =>
             /\ rloc'[c].result = "all_stopped"
             /\ processes' = processes
             /\ \A i \in DOMAIN processes :
                   /\ StateAfter(processes[i].proc) = "STOPPED"
                   /\ ~WorkerAliveAfter(processes[i].proc)]_vars

\* self.metrics of a supervisor, dereferenced.
MetricsOf(p) == IF p = Main THEN Cur ELSE PassiveMetrics[p]
\* The entry of get_summary e says what supervisor p of name n is now.
SaysNow(e, n, p) ==
    /\ e.name = n
    /\ e.state = StateOf(p)
    /\ e.executions = MetricsOf(p).execution_count
    /\ IF MetricsOf(p).execution_count = 0
       THEN e.rate = <<0, 1>>
       ELSE SameQuotient(e.rate, <<MetricsOf(p).success_count,
                                   MetricsOf(p).execution_count>>)

\* C17: get_summary returns without an error; its total is the number of
\* registered supervisors, and it has one entry per registered name, with
\* the supervisor's state, its execution_count and success_count /
\* execution_count, or 0 when execution_count is 0; nothing is registered:
\* total 0 and no entry.
C17_Summary ==
    [][\A c \in Controllers :
          ManagerReturns(c, "get_summary") =>
             /\ rloc'[c].result = "summary"
             /\ rloc'[c].total = Len(processes)
             /\ Len(rloc'[c].out) = Len(processes)
             /\ \A i \in DOMAIN processes :
                   SaysNow(rloc'[c].out[i], processes[i].name,
                           processes[i].proc)]_vars

\* A summary of two supervisors: Main, never run, and s3.
C17_Witness ==
    /\ rpc["c1"] = "idle"
    /\ rloc["c1"].result = "summary"
    /\ rloc["c1"].total = 2
    /\ Len(rloc["c1"].out) = 2
    /\ rloc["c1"].out[1] =
          [name |-> "a", state |-> "IDLE", executions |-> 0, rate |-> <<0, 1>>]
    /\ rloc["c1"].out[2].rate = <<1, 2>>

\* Where a thread is suspended or runs user code: the backoff sleep, the
\* sleep between cycles, the task function, the join of stop().
SuspendedPcs == {"E_backoff", "W_sleep", "E_task", "T_join"}
\* Where a thread is inside a with self._lock block: before the one
\* assignment to, or read of, self.state the block consists of.
LockedPcs ==
    {"E_run", "O_set", "O_restore", "E_end", "G_read", "P_write", "R_write",
     "T_write"}

\* C18: no thread holds the supervisor's lock while it sleeps, runs the task
\* function or waits in join; the holder of the lock is always a thread
\* about to make the single access to self.state of its with block.
C18_LockFreeWhileSuspended ==
    \A t \in Threads :
        /\ pc[t] \in SuspendedPcs => lock # t
        /\ lock = t => pc[t] \in LockedPcs

\* pause() holds the lock while the worker is inside the task function.
C18_Witness ==
    /\ pc[Worker] = "E_task"
    /\ pc[Caller] = "P_write"
    /\ lock = Caller
    /\ loc[Worker].retries >= 1

\* A thread that holds a supervisor's lock does not ask for the manager's.
LockOrder == \A c \in Controllers : lock = c => rpc[c] # "M_lock"
\* The worker has begun as many cycles as the model follows: it is held
\* before its next one.
CyclesExhausted ==
    \E w \in Workers :
        pc[w] = "W_pause" /\ ~pause_flag /\ cycles = MaxCycles

\* C19: the locks are taken in the order manager, supervisor; and a method
\* of the manager that was called returns, also when it waits inside stop()
\* for a worker that is running.  (The worker is followed for MaxCycles
\* cycles.)
C19_ManagerReturns ==
    /\ []LockOrder
    /\ \A c \in Controllers :
          (rpc[c] # "idle") ~> (rpc[c] = "idle" \/ CyclesExhausted)

\* unregister has returned after a stop() whose join saw the worker end.
C19_Witness ==
    /\ rpc[Caller] = "idle"
    /\ rloc[Caller].op = "unregister"
    /\ rloc[Caller].result = "removed"
    /\ wstatus[Worker] = "dead"
    /\ "a" \notin Keys(processes)
    /\ cycles >= 1

\* The positions of a thread inside the optimization hook once it has
\* written OPTIMIZING.
HookPcs == {"O_rd", "O_wr", "O_lock2", "O_restore"}

\* C20: the state is OPTIMIZING only while a thread is inside the hook; the
\* hook's last step puts back the state it found; and its write of
\* optimization_level makes the level of the metrics object it read one
\* step greater than it was, for every interleaving with pause, resume,
\* stop and another execute.
C20_HookRestores ==
    /\ [](state = "OPTIMIZING" => \E t \in Threads : pc[t] \in HookPcs)
    /\ [][\A t \in Threads :
            /\ (pc[t] = "O_restore" /\ pc'[t] # pc[t]) => state' = loc[t].prev
            /\ (pc[t] = "O_wr" /\ pc'[t] # pc[t]) =>
                  heap'[loc[t].mref].optimization_level =
                      heap[loc[t].mref].optimization_level + LevelStep]_vars

\* The trigger of the optimization hook on the current metrics: lines 119
\* and 212-216 taken together.
Triggered ==
    /\ auto_optimize
    /\ Cur.execution_count >= MinExecutions
    /\ Cur.success_count * ThresholdDen < ThresholdNum * Cur.execution_count

\* A thread that is about to begin an attempt: the loop test has passed or
\* the success rate is being computed.
BeforeAttempt(t) == pc[t] \in {"E_loop", "E_rate"} /\ pc'[t] # pc[t]

\* A step in which a thread begins an attempt enters the hook exactly when
\* the trigger holds, and calls the task at once otherwise.
AttemptStep(t) ==
    /\ (BeforeAttempt(t) /\ pc'[t] = "O_lock") => Triggered
    /\ (BeforeAttempt(t) /\ pc'[t] = "E_call") => ~Triggered
    /\ (BeforeAttempt(t) /\ loc[t].retries < max_retries)
          => \/ pc'[t] = "O_lock"
             \/ pc'[t] = "E_call"
             \/ /\ pc[t] = "E_loop"
                /\ pc'[t] = "E_rate"
                /\ auto_optimize
                /\ Cur.execution_count >= MinExecutions

\* A step taken while the hook is off leaves optimization_level as it is and
\* does not make the state OPTIMIZING.
HookOff == ~auto_optimize \/ Cur.execution_count < MinExecutions
HookOffStep ==
    HookOff => /\ heap'[metrics'].optimization_level = Cur.optimization_level
               /\ state' # "OPTIMIZING"

\* C21: when calls of execute come one after the other, the hook is entered
\* before an attempt exactly when auto_optimize is set, execution_count >= 10
\* and success_count / execution_count < 0.8 on the metrics as they stand
\* then, and otherwise the attempt calls the task at once; while auto_optimize
\* is off or execution_count < 10 the state is not OPTIMIZING and no step
\* changes optimization_level.
C21_Trigger ==
    /\ [](HookOff => state # "OPTIMIZING")
    /\ [][(\A t \in Threads : AttemptStep(t)) /\ HookOffStep]_vars

\* The hook has run in a call that found successes and failures recorded.
C21_Witness ==
    /\ pc[Caller] = "O_restore"
    /\ Cur.success_count > 0
    /\ Cur.optimization_level = InitialLevel + LevelStep

\* The positions of a thread inside the retry loop of execute: between the
\* loop test and the outcome of an attempt, the hook and the backoff included.
AttemptPcs ==
    {"E_loop", "E_rate", "O_lock", "O_set", "O_rd", "O_wr", "O_lock2",
     "O_restore", "E_call", "E_task", "E_backoff"}

\* The fields of a metrics object other than optimization_level.
OtherFields(m) == [m EXCEPT !.optimization_level = 0]

\* A step of a thread inside the retry loop changes no field of the current
\* metrics other than optimization_level.
AttemptFrame(t) ==
    (pc[t] \in AttemptPcs /\ pc'[t] # pc[t])
    => OtherFields(heap'[metrics']) = OtherFields(Cur)

AllCallsFinished == \A t \in Threads : ~InExecute(t)

\* C23: on a supervisor of max_retries >= 1 whose metrics were never reset,
\* once every call of execute has ended, the worker's and the callers' alike,
\* execution_count is the number of calls that have ended, success_count the
\* number that returned a result and error_count the number that raised.
C23_NoLostUpdate ==
    (AllCallsFinished /\ metrics = 0 /\ max_retries >= 1)
    => /\ Cur.execution_count = finished.value + finished.raised
       /\ Cur.success_count = finished.value
       /\ Cur.error_count = finished.raised

====
